---- MODULE Spec2Model ----
(***************************************************************************)
(* network-checks (main.go): the concurrent probe scheduler and the        *)
(* rolling-window aggregator.                                              *)
(*                                                                         *)
(* One goroutine per probe (runHttpCheck / runIcmpCheck) sends its         *)
(* CheckResult on the unbuffered channel c; main's `for cR := range c`     *)
(* receives it and spawns one goroutine per received result.  That         *)
(* goroutine records the result in checkResults / checkResultStats, calls  *)
(* displayResults when drawLock is false, sleeps check.Repeat and runs the *)
(* check again.  Every statement that touches shared memory is one step.   *)
(*                                                                         *)
(* Slices are 1-based sequences: check.id i of the source is index i+1.    *)
(***************************************************************************)
EXTENDS Integers, Sequences, FiniteSets, TLC

VARIABLES
    checks,            \* checks.Checks: the CheckType of every configured check
    mainPc,            \* main: index of the next check of the launch loop; Len(checks)+1 = in `for cR := range c`
    units,             \* the live goroutines other than main
    checkResults,      \* main.checkResults: per check the last CheckResult
    checkResultStats,  \* main.checkResultStats: per check the three windows
    drawLock,          \* main.drawLock
    started,           \* per check: number of probe executions started so far
    delivered,         \* per check: the results main has received from c, newest first
    diagnosed,         \* checks for which "Unknown check type" was printed
    budget,            \* probe executions the run may start, all checks together
    script,            \* <<>>: probes answer freely; otherwise the k-th probe answers script[k mod Len]
    renderFailed,      \* "yes" once a displayResults call has returned an error, "no" before; "off": not kept
    io                 \* the last probe execution or printed row with its inputs; fn = "off": not kept

vars == <<checks, mainPc, units, checkResults, checkResultStats, drawLock,
          started, delivered, diagnosed, budget, script, renderFailed, io>>

---------------------------------------------------------------------------
(* Bounds of the model *)

\* probe executions a run of Spec may start, all checks together
MaxProbes == 3
\* durations are 0..MaxDur (abstract time units)
MaxDur == 1
\* probe executions of a run of SpecLong: enough to overflow every window
LongProbes == 102
\* probe executions a run of SpecLive / FairSpec may start, all checks together
LiveProbes == 5

(* Program constants *)

\* main.go:297 limitSlice(..., 10)
Cap10 == 10
\* main.go:298 limitSlice(..., 100)
Cap100 == 100
\* main.go:299 limitSlice(..., 50)
Cap50 == 50
\* main.go:71 resp.StatusCode != 200
StatusOK == 200

Durations == 0..MaxDur
StatusCodes == {StatusOK, 404}

\* the configurations (checks.yml) a run of Spec starts from
Configs == { <<"http", "icmp">>, <<"icmp", "dns">> }
\* the configurations a run of SpecLong starts from: one recognized check
LongConfigs == { <<"http", "dns">>, <<"icmp">> }

Outcome(status, duration) == [status |-> status, duration |-> duration]

\* the outcome streams a run of SpecLong replays, each repeated for ever:
\* alternating ok/fail, durations cycling with period 3, all failing, all equal
LongScripts ==
    { << Outcome(FALSE, 2), Outcome(TRUE, 1) >>,
      << Outcome(TRUE, 0), Outcome(FALSE, 1), Outcome(TRUE, 2),
         Outcome(FALSE, 0), Outcome(TRUE, 1), Outcome(FALSE, 2) >>,
      << Outcome(FALSE, 2) >>,
      << Outcome(TRUE, 2), Outcome(TRUE, 2), Outcome(FALSE, 1) >> }

\* the outcome streams a run of SpecLive / FairSpec replays for every check:
\* all failing, all succeeding, alternating from a failure, alternating from a success
LiveScripts ==
    { << Outcome(FALSE, 1) >>,
      << Outcome(TRUE, 1) >>,
      << Outcome(FALSE, 1), Outcome(TRUE, 0) >>,
      << Outcome(TRUE, 0), Outcome(FALSE, 1) >> }

Min(a, b) == IF a < b THEN a ELSE b

---------------------------------------------------------------------------
(* Data *)

\* CheckResult{status, duration, execCount}; the zero value fills a fresh slice
ZeroResult == [status |-> FALSE, duration |-> 0, execCount |-> 0]

\* CheckResultStat{}: three nil slices
ZeroStat == [last10Durations |-> <<>>, last100Durations |-> <<>>, last50Statuses |-> <<>>]

CheckIds == 1..Len(checks)

\* a variant of Recognized that takes every CheckType for a known one
RecognizedAny(kind) == kind = kind

Recognized(kind) == kind \in {"http", "icmp"}

---------------------------------------------------------------------------
(* Pure functions *)

\* a variant of prependSlice that puts the element behind the others
appendSlice(element, slice) == slice \o <<element>>

\* prependSlice: append([]T{e}, s...)
prependSlice(element, slice) == <<element>> \o slice

\* a variant of limitSlice that keeps one entry too many
limitSliceOneMore(slice, maxLength) ==
    IF Len(slice) > maxLength + 1 THEN SubSeq(slice, 1, maxLength + 1) ELSE slice

\* limitSlice: s[:maxLength] when longer
limitSlice(slice, maxLength) ==
    IF Len(slice) > maxLength THEN SubSeq(slice, 1, maxLength) ELSE slice

\* a variant of runHttpCheck that takes every response for a success
runHttpCheckAnyCode(err, code, elapsed) ==
    [status |-> ~err, duration |-> elapsed]

\* runHttpCheck: status is true iff no transport error and StatusCode == 200;
\* duration is the elapsed wall-clock time
runHttpCheck(err, code, elapsed) ==
    [status |-> ~(err \/ code # StatusOK), duration |-> elapsed]

\* runIcmpCheck: the parsed RTT on success; on a parse error the duration field
\* is never assigned (zero value); on a ping error the elapsed wall-clock time
runIcmpCheck(err, parseErr, rtt, elapsed) ==
    IF ~err
    THEN IF ~parseErr
         THEN [status |-> TRUE, duration |-> rtt]
         ELSE [status |-> FALSE, duration |-> 0]
    ELSE [status |-> FALSE, duration |-> elapsed]

\* averageDuration, main.go:181-184: total += d over the slice
RECURSIVE Total(_)
Total(durations) ==
    IF durations = <<>> THEN 0 ELSE durations[1] + Total(Tail(durations))

\* a variant of averageDuration that divides by the capacity of the short window
averageDurationByCap(durations) ==
    IF Len(durations) = 0 THEN 0 ELSE Total(durations) \div Cap10

\* averageDuration: 0 for an empty slice, else total / len (integer division)
averageDuration(durations) ==
    IF Len(durations) = 0 THEN 0 ELSE Total(durations) \div Len(durations)

---------------------------------------------------------------------------
(* Goroutines *)

\* A goroutine: the check it works for (id), the ordinal n of the probe
\* execution it runs or whose result it carries, its position pc, its
\* checkResult (status, duration, execCount), and displayResults' locals:
\* the row index i, the loop variable checkResult (rowCopy) and the
\* last50Statuses it has read for statusHistory (rowHist).
NoRow == [status |-> FALSE, duration |-> 0, execCount |-> 0]

Unit(id, n, pc, status, duration, execCount) ==
    [id |-> id, n |-> n, pc |-> pc, status |-> status, duration |-> duration,
     execCount |-> execCount, row |-> 0, rowCopy |-> NoRow, rowHist |-> <<>>]

ProbeUnit(id, n) == Unit(id, n, "probe", FALSE, 0, 0)

Replace(u, v) == (units \ {u}) \cup {v}

\* the outcome the environment lets the n-th probe of a check produce
Allowed(n, r) ==
    IF script = <<>> THEN TRUE ELSE r = script[((n - 1) % Len(script)) + 1]

\* the durations a probe can measure in this run
ProbeDurations ==
    IF script = <<>> THEN Durations ELSE {script[k].duration : k \in DOMAIN script}

RECURSIVE Sum(_, _)
Sum(f, S) == IF S = {} THEN 0
             ELSE LET x == CHOOSE y \in S : TRUE IN f[x] + Sum(f, S \ {x})

\* probe executions started so far, all checks together
TotalStarted == Sum(started, CheckIds)

\* the goroutines inside displayResults
RenderPcs == {"l220", "l226", "l241", "l249", "l265"}
Rendering == {u \in units : u.pc \in RenderPcs}

\* the goroutines between receiving a result and the end of its recording
RecordPcs == {"l294", "l295", "l297", "l298", "l299"}
Recording(i) == {u \in units : u.id = i /\ u.pc \in RecordPcs}

\* io when the run keeps no record of its probes and rows, and before the first one
IoOff == [fn |-> "off"]
IoNone == [fn |-> "none"]

\* io after the event ev
Traced(ev) == IF io.fn = "off" THEN io ELSE ev

\* renderFailed after a displayResults call has returned an error
Failed == IF renderFailed = "off" THEN renderFailed ELSE "yes"

---------------------------------------------------------------------------
(* Initial states *)

InitStore ==
    /\ mainPc = 1
    /\ units = {}
    /\ checkResults = [i \in CheckIds |-> ZeroResult]
    /\ checkResultStats = [i \in CheckIds |-> ZeroStat]
    /\ drawLock = FALSE
    /\ started = [i \in CheckIds |-> 0]
    /\ delivered = [i \in CheckIds |-> <<>>]
    /\ diagnosed = {}

Init ==
    /\ checks \in Configs
    /\ budget = MaxProbes
    /\ script = <<>>
    /\ renderFailed = "off"
    /\ io = IoOff
    /\ InitStore

InitLive ==
    /\ checks \in Configs
    /\ budget = LiveProbes
    /\ script \in LiveScripts
    /\ renderFailed = "no"
    /\ io = IoOff
    /\ InitStore

InitLong ==
    /\ checks \in LongConfigs
    /\ budget = LongProbes
    /\ script \in LongScripts
    /\ renderFailed = "off"
    /\ io = IoNone
    /\ InitStore

\* one recognized check, every probe execution and every printed row kept in io
InitIo ==
    /\ checks \in LongConfigs
    /\ budget = MaxProbes
    /\ script = <<>>
    /\ renderFailed = "no"
    /\ io = IoNone
    /\ InitStore

---------------------------------------------------------------------------
(* main: the launch loop, main.go:281-290 *)

\* `go runHttpCheck(check, c)` / `go runIcmpCheck(check, c)`
LaunchUnits(i) == {ProbeUnit(i, 1)}

Launch ==
    /\ mainPc <= Len(checks)
    /\ Recognized(checks[mainPc])
    /\ units' = units \cup LaunchUnits(mainPc)
    /\ started' = [started EXCEPT ![mainPc] = 1]
    /\ mainPc' = mainPc + 1
    /\ UNCHANGED <<checks, checkResults, checkResultStats, drawLock, delivered,
                   diagnosed, budget, script, renderFailed, io>>

\* default: fmt.Println("Unknown check type:", ...): no goroutine is started
LaunchUnknown ==
    /\ mainPc <= Len(checks)
    /\ ~Recognized(checks[mainPc])
    /\ diagnosed' = diagnosed \cup {mainPc}
    /\ mainPc' = mainPc + 1
    /\ UNCHANGED <<checks, units, checkResults, checkResultStats, drawLock, started,
                   delivered, budget, script, renderFailed, io>>

---------------------------------------------------------------------------
(* The probes, main.go:60-120: everything up to the send on c *)

\* the goroutine holding the CheckResult it is about to send
Sending(u, r) == [u EXCEPT !.pc = "send", !.status = r.status, !.duration = r.duration]

HttpDone(u) ==
    /\ u.pc = "probe"
    /\ checks[u.id] = "http"
    /\ \E err \in BOOLEAN, code \in StatusCodes, elapsed \in ProbeDurations :
          LET r == runHttpCheck(err, code, elapsed) IN
          /\ Allowed(u.n, r)
          /\ units' = Replace(u, Sending(u, r))
          /\ io' = Traced([fn |-> "http", err |-> err, code |-> code, elapsed |-> elapsed,
                           status |-> r.status, duration |-> r.duration])
    /\ UNCHANGED <<checks, mainPc, checkResults, checkResultStats, drawLock, started,
                   delivered, diagnosed, budget, script, renderFailed>>

IcmpDone(u) ==
    /\ u.pc = "probe"
    /\ checks[u.id] = "icmp"
    /\ \E err \in BOOLEAN, parseErr \in BOOLEAN, rtt \in ProbeDurations,
          elapsed \in ProbeDurations :
          LET r == runIcmpCheck(err, parseErr, rtt, elapsed) IN
          /\ Allowed(u.n, r)
          /\ units' = Replace(u, Sending(u, r))
          /\ io' = Traced([fn |-> "icmp", err |-> err, parseErr |-> parseErr, rtt |-> rtt,
                           elapsed |-> elapsed, status |-> r.status, duration |-> r.duration])
    /\ UNCHANGED <<checks, mainPc, checkResults, checkResultStats, drawLock, started,
                   delivered, diagnosed, budget, script, renderFailed>>

---------------------------------------------------------------------------
(* main: `for cR := range c { go func(checkResult CheckResult) {...}(cR) }`,  *)
(* main.go:292-293.  c is unbuffered: the receive is a rendezvous with one    *)
(* goroutine blocked in `c <- checkResult` (main.go:77, 119), which then      *)
(* returns and ends.                                                          *)

\* a variant of Spawned in which main does not hand the result to a goroutine
SpawnedNone(u) == {}

\* a variant of Spawned that also runs the next probe at once, before the
\* result is recorded
SpawnedEager(u) ==
    {Unit(u.id, u.n, "l294", u.status, u.duration, 0), ProbeUnit(u.id, u.n + 1)}

\* the goroutines main spawns for the result carried by u
Spawned(u) == {Unit(u.id, u.n, "l294", u.status, u.duration, 0)}

\* a variant of Receive in which main takes no result while a render pass runs
ReceiveIdle(u) ==
    /\ mainPc = Len(checks) + 1
    /\ Rendering = {}
    /\ u.pc = "send"
    /\ units' = (units \ {u}) \cup Spawned(u)
    /\ delivered' = [delivered EXCEPT ![u.id] = <<Outcome(u.status, u.duration)>> \o @]
    /\ UNCHANGED <<checks, mainPc, checkResults, checkResultStats, drawLock, started,
                   diagnosed, budget, script, renderFailed, io>>

Receive(u) ==
    /\ mainPc = Len(checks) + 1
    /\ u.pc = "send"
    /\ units' = (units \ {u}) \cup Spawned(u)
    /\ delivered' = [delivered EXCEPT ![u.id] = <<Outcome(u.status, u.duration)>> \o @]
    /\ UNCHANGED <<checks, mainPc, checkResults, checkResultStats, drawLock, started,
                   diagnosed, budget, script, renderFailed, io>>

---------------------------------------------------------------------------
(* The goroutine of one received result, main.go:294-299: recording *)

\* a variant of NextExecCount that counts from the received result's own field
NextExecCountOwn(u) == u.execCount + 1

\* main.go:294: checkResult.execCount = checkResults[checkResult.check.id].execCount + 1
NextExecCount(u) == checkResults[u.id].execCount + 1

L294(u) ==
    /\ u.pc = "l294"
    /\ units' = Replace(u, [u EXCEPT !.execCount = NextExecCount(u), !.pc = "l295"])
    /\ UNCHANGED <<checks, mainPc, checkResults, checkResultStats, drawLock, started,
                   delivered, diagnosed, budget, script, renderFailed, io>>

\* a variant of StoreResult that always writes the first slot
StoreResultFirst(u) ==
    [checkResults EXCEPT ![1] =
        [status |-> u.status, duration |-> u.duration, execCount |-> u.execCount]]

\* a variant of StoreResult that skips the store while a render pass holds the guard
StoreResultIfOpen(u) ==
    IF drawLock = FALSE
    THEN [checkResults EXCEPT ![u.id] =
             [status |-> u.status, duration |-> u.duration, execCount |-> u.execCount]]
    ELSE checkResults

\* main.go:295: checkResults[checkResult.check.id] = checkResult
StoreResult(u) ==
    [checkResults EXCEPT ![u.id] =
        [status |-> u.status, duration |-> u.duration, execCount |-> u.execCount]]

L295(u) ==
    /\ u.pc = "l295"
    /\ checkResults' = StoreResult(u)
    /\ units' = Replace(u, [u EXCEPT !.pc = "l297"])
    /\ UNCHANGED <<checks, mainPc, checkResultStats, drawLock, started, delivered,
                   diagnosed, budget, script, renderFailed, io>>

\* a variant of Push10 that leaves a full window as it is
Push10Full(duration, window) ==
    IF Len(window) >= Cap10 THEN window ELSE prependSlice(duration, window)

\* main.go:297: limitSlice(prependSlice(checkResult.duration, last10Durations), 10)
Push10(duration, window) == limitSlice(prependSlice(duration, window), Cap10)

\* main.go:298: limitSlice(prependSlice(checkResult.duration, last100Durations), 100)
Push100(duration, window) == limitSlice(prependSlice(duration, window), Cap100)

\* main.go:299: limitSlice(prependSlice(checkResult.status, last50Statuses), 50)
Push50(status, window) == limitSlice(prependSlice(status, window), Cap50)

\* main.go:297
L297(u) ==
    /\ u.pc = "l297"
    /\ checkResultStats' = [checkResultStats EXCEPT ![u.id].last10Durations =
            Push10(u.duration, @)]
    /\ units' = Replace(u, [u EXCEPT !.pc = "l298"])
    /\ UNCHANGED <<checks, mainPc, checkResults, drawLock, started, delivered,
                   diagnosed, budget, script, renderFailed, io>>

\* main.go:298
L298(u) ==
    /\ u.pc = "l298"
    /\ checkResultStats' = [checkResultStats EXCEPT ![u.id].last100Durations =
            Push100(u.duration, @)]
    /\ units' = Replace(u, [u EXCEPT !.pc = "l299"])
    /\ UNCHANGED <<checks, mainPc, checkResults, drawLock, started, delivered,
                   diagnosed, budget, script, renderFailed, io>>

\* main.go:299
L299(u) ==
    /\ u.pc = "l299"
    /\ checkResultStats' = [checkResultStats EXCEPT ![u.id].last50Statuses =
            Push50(u.status, @)]
    /\ units' = Replace(u, [u EXCEPT !.pc = "l301"])
    /\ UNCHANGED <<checks, mainPc, checkResults, drawLock, started, delivered,
                   diagnosed, budget, script, renderFailed, io>>

---------------------------------------------------------------------------
(* main.go:301-303 and displayResults, main.go:219-267 *)

\* main.go:301: if drawLock == false
GuardOpen == drawLock = FALSE

\* a variant of AfterGuard that waits for the guard instead of skipping the render
AfterGuardWait(u) == [u EXCEPT !.pc = IF GuardOpen THEN "l220" ELSE "l301"]

\* main.go:301-305: into displayResults, or past it to the sleep
AfterGuard(u) == [u EXCEPT !.pc = IF GuardOpen THEN "l220" ELSE "l305"]

L301(u) ==
    /\ u.pc = "l301"
    /\ units' = Replace(u, AfterGuard(u))
    /\ UNCHANGED <<checks, mainPc, checkResults, checkResultStats, drawLock, started,
                   delivered, diagnosed, budget, script, renderFailed, io>>

\* main.go:220-224: *drawLock = true, clear the screen, print the header
L220(u) ==
    /\ u.pc = "l220"
    /\ drawLock' = TRUE
    /\ units' = Replace(u, [u EXCEPT !.pc = "l226", !.row = 1])
    /\ UNCHANGED <<checks, mainPc, checkResults, checkResultStats, started, delivered,
                   diagnosed, budget, script, renderFailed, io>>

\* main.go:226: for i, checkResult := range checkResults copies element i
L226(u) ==
    /\ u.pc = "l226"
    /\ units' = Replace(u, [u EXCEPT !.pc = "l241", !.rowCopy = checkResults[u.row]])
    /\ UNCHANGED <<checks, mainPc, checkResults, checkResultStats, drawLock, started,
                   delivered, diagnosed, budget, script, renderFailed, io>>

\* a variant of L241 that takes the status history out of the store as it reads it
L241Drain(u) ==
    /\ u.pc = "l241"
    /\ units' = Replace(u, [u EXCEPT !.pc = "l249",
                                     !.rowHist = checkResultStats[u.row].last50Statuses])
    /\ checkResultStats' = [checkResultStats EXCEPT ![u.row].last50Statuses = <<>>]
    /\ UNCHANGED <<checks, mainPc, checkResults, drawLock, started,
                   delivered, diagnosed, budget, script, renderFailed, io>>

\* main.go:240-247: statusHistory from checkResultStats[i].last50Statuses
L241(u) ==
    /\ u.pc = "l241"
    /\ units' = Replace(u, [u EXCEPT !.pc = "l249",
                                     !.rowHist = checkResultStats[u.row].last50Statuses])
    /\ UNCHANGED <<checks, mainPc, checkResults, checkResultStats, drawLock, started,
                   delivered, diagnosed, budget, script, renderFailed, io>>

\* the goroutine after row u.row was printed: the next row, or main.go:265
NextRow(u) ==
    IF u.row < Len(checks)
    THEN [u EXCEPT !.pc = "l226", !.row = u.row + 1, !.rowCopy = NoRow, !.rowHist = <<>>]
    ELSE [u EXCEPT !.pc = "l265", !.row = 0, !.rowCopy = NoRow, !.rowHist = <<>>]

\* main.go:254-255: the two averages of row u.row, of the windows as they are now
PrintedRow(u) ==
    [fn |-> "row", row |-> u.row,
     last10 |-> checkResultStats[u.row].last10Durations,
     last100 |-> checkResultStats[u.row].last100Durations,
     avg10 |-> averageDuration(checkResultStats[u.row].last10Durations),
     avg100 |-> averageDuration(checkResultStats[u.row].last100Durations)]

\* main.go:249-259: statusColor.Printf(...) returned no error
L249(u) ==
    /\ u.pc = "l249"
    /\ units' = Replace(u, NextRow(u))
    /\ io' = Traced(PrintedRow(u))
    /\ UNCHANGED <<checks, mainPc, checkResults, checkResultStats, drawLock, started,
                   delivered, diagnosed, budget, script, renderFailed>>

\* a variant of AfterError in which the goroutine ends with the error
AfterErrorStop(u) ==
    [u EXCEPT !.pc = "stopped", !.row = 0, !.rowCopy = NoRow, !.rowHist = <<>>]

\* main.go:262 and 302-305: displayResults returns err, the caller drops it and
\* goes on to time.Sleep
AfterError(u) ==
    [u EXCEPT !.pc = "l305", !.row = 0, !.rowCopy = NoRow, !.rowHist = <<>>]

\* main.go:260-263: Printf returned an error: *drawLock = true; return err.
\* The caller (main.go:302) drops the error.
L249Err(u) ==
    /\ u.pc = "l249"
    /\ drawLock' = TRUE
    /\ units' = Replace(u, AfterError(u))
    /\ renderFailed' = Failed
    /\ UNCHANGED <<checks, mainPc, checkResults, checkResultStats, started, delivered,
                   diagnosed, budget, script, io>>

\* main.go:265-266: *drawLock = false; return nil
L265(u) ==
    /\ u.pc = "l265"
    /\ drawLock' = FALSE
    /\ units' = Replace(u, [u EXCEPT !.pc = "l305"])
    /\ UNCHANGED <<checks, mainPc, checkResults, checkResultStats, started, delivered,
                   diagnosed, budget, script, renderFailed, io>>

---------------------------------------------------------------------------
(* main.go:305-313: time.Sleep(checkResult.check.Repeat), then the check again *)

\* a variant of Rescheduled that runs the check again only after a success
RescheduledOnSuccess(u) ==
    IF u.status THEN {ProbeUnit(u.id, started[u.id] + 1)} ELSE {}

\* the goroutines that run the next probe execution of u's check
Rescheduled(u) == {ProbeUnit(u.id, started[u.id] + 1)}

\* case "http": runHttpCheck(checkResult.check, c), called in this goroutine
RescheduleHttp(u) ==
    /\ u.pc = "l305"
    /\ checks[u.id] = "http"
    /\ TotalStarted < budget
    /\ units' = (units \ {u}) \cup Rescheduled(u)
    /\ started' = [started EXCEPT ![u.id] = @ + 1]
    /\ UNCHANGED <<checks, mainPc, checkResults, checkResultStats, drawLock, delivered,
                   diagnosed, budget, script, renderFailed, io>>

\* case "icmp": go runIcmpCheck(checkResult.check, c), and this goroutine ends
RescheduleIcmp(u) ==
    /\ u.pc = "l305"
    /\ checks[u.id] = "icmp"
    /\ TotalStarted < budget
    /\ units' = (units \ {u}) \cup Rescheduled(u)
    /\ started' = [started EXCEPT ![u.id] = @ + 1]
    /\ UNCHANGED <<checks, mainPc, checkResults, checkResultStats, drawLock, delivered,
                   diagnosed, budget, script, renderFailed, io>>

---------------------------------------------------------------------------
(* Specifications *)

\* one step of goroutine u (for a blocked sender: the rendezvous with main)
UnitStep(u) ==
    \/ HttpDone(u)
    \/ IcmpDone(u)
    \/ Receive(u)
    \/ L294(u)
    \/ L295(u)
    \/ L297(u)
    \/ L298(u)
    \/ L299(u)
    \/ L301(u)
    \/ L220(u)
    \/ L226(u)
    \/ L241(u)
    \/ L249(u)
    \/ L249Err(u)
    \/ L265(u)
    \/ RescheduleHttp(u)
    \/ RescheduleIcmp(u)

Next ==
    \/ Launch
    \/ LaunchUnknown
    \/ \E u \in units : HttpDone(u)
    \/ \E u \in units : IcmpDone(u)
    \/ \E u \in units : Receive(u)
    \/ \E u \in units : L294(u)
    \/ \E u \in units : L295(u)
    \/ \E u \in units : L297(u)
    \/ \E u \in units : L298(u)
    \/ \E u \in units : L299(u)
    \/ \E u \in units : L301(u)
    \/ \E u \in units : L220(u)
    \/ \E u \in units : L226(u)
    \/ \E u \in units : L241(u)
    \/ \E u \in units : L249(u)
    \/ \E u \in units : L249Err(u)
    \/ \E u \in units : L265(u)
    \/ \E u \in units : RescheduleHttp(u)
    \/ \E u \in units : RescheduleIcmp(u)

Spec == Init /\ [][Next]_vars

\* one check from first probe to window overflow
SpecLong == InitLong /\ [][Next]_vars

\* the runs of one recognized check that keep every probe execution and printed row
SpecIo == InitIo /\ [][Next]_vars

\* one step of a goroutine of check i
CheckStep(i) == \E u \in units : u.id = i /\ UnitStep(u)

\* the indices a check can have
AllIds == UNION {DOMAIN c : c \in Configs}

\* main keeps running
MainFair == WF_vars(Launch \/ LaunchUnknown)

\* The Go scheduler runs every runnable goroutine, main is blocked in the receive
\* whenever it is not launching, every sleep ends; every probe execution and
\* every render pass terminates.
Fairness == MainFair /\ \A i \in AllIds : WF_vars(CheckStep(i))

\* the scheduler of Spec, the outcome of every probe fixed by a script
SpecLive == InitLive /\ [][Next]_vars

FairSpec == InitLive /\ [][Next]_vars /\ Fairness

---------------------------------------------------------------------------
(* Vocabulary of the properties *)

Take(s, n) == SubSeq(s, 1, Min(n, Len(s)))
DurationsOf(outs) == [k \in 1..Len(outs) |-> outs[k].duration]
StatusesOf(outs) == [k \in 1..Len(outs) |-> outs[k].status]

\* the goroutines of check i at one of the positions pcs
At(i, pcs) == {u \in units : u.id = i /\ u.pc \in pcs}

\* the goroutine that takes the step, if the step is one of a goroutine
Movers == {u \in units : u \notin units'}

\* the stats a single thread gets by recording outs (newest first) one after the other
RECURSIVE SequentialStats(_)
SequentialStats(outs) ==
    IF outs = <<>> THEN ZeroStat
    ELSE LET prev == SequentialStats(Tail(outs))
             o == Head(outs)
         IN [last10Durations |-> Push10(o.duration, prev.last10Durations),
             last100Durations |-> Push100(o.duration, prev.last100Durations),
             last50Statuses |-> Push50(o.status, prev.last50Statuses)]

\* new is old with e put in front, cut at cap
Shifted(new, old, e, cap) ==
    /\ Len(new) = Min(Len(old) + 1, cap)
    /\ new[1] = e
    /\ \A k \in 2..Len(new) : new[k] = old[k - 1]

---------------------------------------------------------------------------
(* C1 *)

\* a step of a goroutine of check i leaves every other check's last result and
\* windows as they were
C1Frame ==
    \A u \in Movers : \A j \in CheckIds \ {u.id} :
        /\ checkResults'[j] = checkResults[j]
        /\ checkResultStats'[j] = checkResultStats[j]

\* whenever no goroutine of check i is recording, its count and windows are those
\* of a sequential recording of the results received for i
C1Sequential ==
    \A i \in CheckIds :
        Recording(i) = {} =>
            /\ checkResults[i].execCount = Len(delivered[i])
            /\ checkResultStats[i] = SequentialStats(delivered[i])

\* C1: for distinct checks i and j, under every interleaving, processing a result
\* of i leaves j's last result, execution count and three windows unchanged, and
\* each check's count and windows are what a sequential recording of its own
\* results gives.
C1_Isolation == [](C1Sequential) /\ [][C1Frame]_vars

\* two goroutines of different checks are recording at the same time, one of them
\* the second result of its check
C1_Witness ==
    \E u, v \in units :
        /\ u.id # v.id
        /\ u.pc = "l298" /\ v.pc = "l298"
        /\ u.execCount = 2

---------------------------------------------------------------------------
(* C2 *)

\* the results of check i received from c whose goroutine has not yet stored
\* them in checkResults[i] (main.go:295)
NotYetStored(i) == At(i, {"l294", "l295"})

C2Count ==
    \A i \in CheckIds :
        /\ checkResults[i].execCount = Len(delivered[i]) - Cardinality(NotYetStored(i))
        /\ Recording(i) = {} => checkResults[i].execCount = Len(delivered[i])

C2Monotone ==
    \A i \in CheckIds : checkResults'[i].execCount >= checkResults[i].execCount

\* C2: in every reachable state the execution count in a check's last-result slot
\* is the number of results recorded for it: the number received less those whose
\* goroutine has not reached the store of main.go:295, hence N once N results are
\* recorded and no goroutine of the check is recording; no increment is lost, and
\* the count never decreases.
C2_ExecCount == [](C2Count) /\ [][C2Monotone]_vars

\* a check has counted two results while a goroutine of the other check is
\* between reading and storing its count
C2_Witness ==
    \E i \in CheckIds, u \in units :
        /\ u.id # i
        /\ u.pc = "l295"
        /\ checkResults[i].execCount = 2

---------------------------------------------------------------------------
(* C3 *)

\* the number of results of check i already pushed on each window: those received
\* less those whose goroutine has not passed main.go:297 / 298 / 299
Pushed10(i) == Len(delivered[i]) - Cardinality(At(i, {"l294", "l295", "l297"}))
Pushed100(i) == Len(delivered[i]) - Cardinality(At(i, {"l294", "l295", "l297", "l298"}))
Pushed50(i) == Len(delivered[i]) - Cardinality(Recording(i))

\* C3: after N results have been recorded for a check its windows have lengths
\* min(N,10), min(N,100) and min(N,50), and no stored window is ever longer than
\* its cap.
C3_WindowLengths ==
    \A i \in CheckIds :
        LET st == checkResultStats[i] IN
        /\ Len(st.last10Durations) = Min(Pushed10(i), Cap10)
        /\ Len(st.last100Durations) = Min(Pushed100(i), Cap100)
        /\ Len(st.last50Statuses) = Min(Pushed50(i), Cap50)
        /\ Recording(i) = {} =>
              /\ Len(st.last10Durations) = Min(Len(delivered[i]), Cap10)
              /\ Len(st.last100Durations) = Min(Len(delivered[i]), Cap100)
              /\ Len(st.last50Statuses) = Min(Len(delivered[i]), Cap50)
        /\ Len(st.last10Durations) <= Cap10
        /\ Len(st.last100Durations) <= Cap100
        /\ Len(st.last50Statuses) <= Cap50

\* more results than the largest cap have been recorded and every window is full
C3_Witness ==
    \E i \in CheckIds :
        /\ Recording(i) = {}
        /\ Len(delivered[i]) > Cap100
        /\ Len(checkResultStats[i].last10Durations) = Cap10
        /\ Len(checkResultStats[i].last100Durations) = Cap100
        /\ Len(checkResultStats[i].last50Statuses) = Cap50

---------------------------------------------------------------------------
(* C4 *)

\* the windows of a check that is not recording are its most recent results,
\* newest first
C4Newest ==
    \A i \in CheckIds :
        Recording(i) = {} =>
            LET st == checkResultStats[i] IN
            /\ st.last10Durations = Take(DurationsOf(delivered[i]), Cap10)
            /\ st.last100Durations = Take(DurationsOf(delivered[i]), Cap100)
            /\ st.last50Statuses = Take(StatusesOf(delivered[i]), Cap50)

\* alternating failure and success, ending in a failure: [fail, ok, fail, ok, fail]
C4Scenario ==
    \A i \in CheckIds :
        ( /\ Recording(i) = {}
          /\ StatusesOf(delivered[i]) = <<FALSE, TRUE, FALSE, TRUE, FALSE>> )
        => checkResultStats[i].last50Statuses = <<FALSE, TRUE, FALSE, TRUE, FALSE>>

\* each push puts the result at index 0 and moves the others back by one
C4Push ==
    \A u \in Movers :
        LET old == checkResultStats[u.id]
            new == checkResultStats'[u.id] IN
        /\ u.pc = "l297" => Shifted(new.last10Durations, old.last10Durations, u.duration, Cap10)
        /\ u.pc = "l298" => Shifted(new.last100Durations, old.last100Durations, u.duration, Cap100)
        /\ u.pc = "l299" => Shifted(new.last50Statuses, old.last50Statuses, u.status, Cap50)

\* C4: recording a result puts its duration/status at index 0 of each window and
\* shifts the previous entries back by one in unchanged order, dropping only the
\* oldest entry beyond the cap; each window is the sequence of the check's most
\* recent results, newest first.
C4_NewestFirst == [](C4Newest /\ C4Scenario) /\ [][C4Push]_vars

\* the 50-window has dropped its oldest entries and holds both outcomes in the
\* order of arrival
C4_Witness ==
    \E i \in CheckIds :
        /\ Recording(i) = {}
        /\ Len(delivered[i]) > Cap50
        /\ checkResultStats[i].last50Statuses[1] = FALSE
        /\ checkResultStats[i].last50Statuses[2] = TRUE
        /\ checkResultStats[i].last10Durations[1] # checkResultStats[i].last10Durations[2]

---------------------------------------------------------------------------
(* C5 *)

\* C5: at most one render pass (one execution of displayResults) is in progress
\* at any time.
C5_OneRender == Cardinality(Rendering) <= 1

---------------------------------------------------------------------------
(* C6 *)

\* C6: a render pass never reads a partially applied record: for every row it
\* has read, the status window has length min(c,50), c the execution count of the
\* last result it read, and its index-0 entry is the status of that last result.
C6_NoTornRead ==
    \A u \in units :
        u.pc = "l249" =>
            /\ Len(u.rowHist) = Min(u.rowCopy.execCount, Cap50)
            /\ u.rowCopy.execCount >= 1 => u.rowHist[1] = u.rowCopy.status

---------------------------------------------------------------------------
(* C7 *)

\* at most one goroutine works for a check, whatever it is doing
C7OneUnit ==
    \A u, v \in units : u.id = v.id => u = v

\* a probe execution that is running or whose result is not yet delivered is the
\* latest one of its check, and all earlier results are completely recorded
C7ProbeAfterRecord ==
    \A u \in units :
        u.pc \in {"probe", "send"} =>
            /\ u.n = started[u.id]
            /\ Len(delivered[u.id]) = u.n - 1
            /\ checkResults[u.id].execCount = u.n - 1
            /\ Len(checkResultStats[u.id].last10Durations) = Min(u.n - 1, Cap10)
            /\ Len(checkResultStats[u.id].last100Durations) = Min(u.n - 1, Cap100)
            /\ Len(checkResultStats[u.id].last50Statuses) = Min(u.n - 1, Cap50)

\* a probe execution of a check starts at the launch or from the wait step
\* (main.go:305) of the goroutine that recorded the check's previous result
C7StartFromWait ==
    \A i \in CheckIds :
        started'[i] # started[i] =>
            /\ started'[i] = started[i] + 1
            /\ \/ started[i] = 0 /\ mainPc = i
               \/ \E u \in Movers :
                     /\ u.id = i
                     /\ u.pc = "l305"
                     /\ u.n = started[i]
                     /\ checkResults[i].execCount = started[i]

\* C7: for each check, probe executions and recordings are strictly sequential:
\* at most one probe or undelivered result exists, the (k+1)-th probe starts only
\* after the k-th result is fully recorded and its goroutine has reached the wait
\* step, and two goroutines of one check never update its stats concurrently.
C7_Sequential == [](C7OneUnit /\ C7ProbeAfterRecord) /\ [][C7StartFromWait]_vars

\* the second probe execution of a check is running after its first result was
\* recorded
C7_Witness ==
    \E u \in units :
        /\ u.pc = "probe"
        /\ u.n = 2
        /\ checkResults[u.id].execCount = 1

---------------------------------------------------------------------------
(* C8 *)

\* probe executions of check i that have not delivered their result
InFlight(i) == At(i, {"probe", "send"})

\* C8: every result a probe execution produces is received from c and recorded
\* by exactly one goroutine: each started probe execution is still in flight or
\* its result was received once, each received result is being recorded by one
\* goroutine or was recorded once, and the recorded results are the received ones.
C8_ExactlyOnce ==
    \A i \in CheckIds :
        /\ started[i] = Len(delivered[i]) + Cardinality(InFlight(i))
        /\ Len(delivered[i]) = checkResults[i].execCount + Cardinality(NotYetStored(i))
        /\ Recording(i) = {} =>
              /\ checkResults[i].execCount = Len(delivered[i])
              /\ checkResultStats[i].last10Durations = Take(DurationsOf(delivered[i]), Cap10)
              /\ checkResultStats[i].last100Durations = Take(DurationsOf(delivered[i]), Cap100)
              /\ checkResultStats[i].last50Statuses = Take(StatusesOf(delivered[i]), Cap50)
              /\ Len(delivered[i]) >= 1 =>
                    /\ checkResults[i].status = delivered[i][1].status
                    /\ checkResults[i].duration = delivered[i][1].duration

\* two probe executions of a check have delivered their results and both are
\* recorded
C8_Witness ==
    \E i \in CheckIds :
        /\ started[i] = 2
        /\ InFlight(i) = {}
        /\ Recording(i) = {}
        /\ checkResults[i].execCount = 2

---------------------------------------------------------------------------
(* C9 *)

\* the run has started all the probe executions it may start, and every
\* recognized check has recorded the result of each probe execution it started
AllRecorded ==
    /\ mainPc = Len(checks) + 1
    /\ TotalStarted = budget
    /\ \A i \in CheckIds :
          Recognized(checks[i]) =>
              /\ started[i] >= 1
              /\ Recording(i) = {}
              /\ checkResults[i].execCount = started[i]

\* a goroutine of check i is at the wait step with a failed result
FailedWaiting(i) == \E u \in At(i, {"l305"}) : ~u.status

\* C9: under fairness, with terminating probes and render passes, every
\* recognized check is probed and recorded again and again, after a failure as
\* after a success: the run stops only when the model's budget of probe executions
\* is used up, with every started probe execution recorded, and a failed result
\* at the wait step is followed by the next probe of its check while budget is left.
C9_RepeatsForEver ==
    /\ <>[]AllRecorded
    /\ \A i \in AllIds :
          FailedWaiting(i) ~> (At(i, {"probe"}) # {} \/ TotalStarted = budget)

\* after a failed result was recorded, the next probe execution of the check runs
C9_Witness ==
    \E u \in units :
        /\ u.pc = "probe"
        /\ u.n >= 2
        /\ checkResults[u.id].execCount = u.n - 1
        /\ ~checkResults[u.id].status

---------------------------------------------------------------------------
(* C10 *)

\* every goroutine can take its next step whatever the others are doing; the only
\* exceptions are a sender while main is still launching, and the model's budget
C10Enabled ==
    \A u \in units :
        \/ ENABLED UnitStep(u)
        \/ u.pc = "send" /\ mainPc <= Len(checks)
        \/ u.pc = "l305" /\ TotalStarted >= budget

\* check b has used up the budget left to it and recorded all its results
DoneFor(b) ==
    (b \in CheckIds /\ Recognized(checks[b])) =>
        /\ TotalStarted = budget
        /\ Recording(b) = {}
        /\ InFlight(b) = {}
        /\ started[b] >= 1
        /\ checkResults[b].execCount = started[b]

\* C10: one check's cycle never depends on another's: if only main and the
\* goroutines of check b are scheduled, and the others wait or never complete
\* their probe, b still completes probes and has every result recorded.
C10_Independent ==
    /\ []C10Enabled
    /\ \A b \in AllIds : (MainFair /\ WF_vars(CheckStep(b))) => <>[]DoneFor(b)

\* check b has recorded two results while the first probe of another check has
\* not completed
C10_Witness ==
    \E a, b \in units :
        /\ a.id # b.id
        /\ a.pc = "probe" /\ a.n = 1
        /\ b.pc = "l305" /\ b.n = 2
        /\ checkResults[b.id].execCount = 2

---------------------------------------------------------------------------
(* C11 *)

\* the checks whose CheckType is neither "http" nor "icmp"
UnknownIds == {i \in CheckIds : checks[i] # "http" /\ checks[i] # "icmp"}

\* C11: a check of an unknown type gets its diagnostic when the launch loop
\* passes it, and nothing else ever happens for it: no probe execution is
\* started, no goroutine works for it, no result of it is received, its
\* execution count stays 0 and its three windows stay empty.  The diagnostic
\* is printed for no other check.
C11_UnknownNeverRuns ==
    /\ diagnosed = {i \in UnknownIds : i < mainPc}
    /\ \A i \in UnknownIds :
          /\ started[i] = 0
          /\ {u \in units : u.id = i} = {}
          /\ delivered[i] = <<>>
          /\ checkResults[i] = ZeroResult
          /\ checkResultStats[i] = ZeroStat

\* the check of unknown type was diagnosed, and the check next to it has
\* recorded the results of two probe executions
C11_Witness ==
    \E i \in UnknownIds, j \in CheckIds :
        /\ i \in diagnosed
        /\ Recognized(checks[j])
        /\ checkResults[j].execCount = 2
        /\ Recording(j) = {}

---------------------------------------------------------------------------
(* C12 *)

\* the result carried by goroutine u is the newest one in the slot and in the
\* three windows of its check
Recorded(u) ==
    /\ checkResults[u.id] =
          [status |-> u.status, duration |-> u.duration, execCount |-> u.n]
    /\ Take(checkResultStats[u.id].last10Durations, 1) = <<u.duration>>
    /\ Take(checkResultStats[u.id].last100Durations, 1) = <<u.duration>>
    /\ Take(checkResultStats[u.id].last50Statuses, 1) = <<u.status>>

\* a goroutine that has reached the guard, or is past it, has recorded its result
C12Recorded ==
    \A u \in units : u.pc \in ({"l301", "l305"} \cup RenderPcs) => Recorded(u)

\* a recording goroutine can always take its next step, guard set or not
C12RecordEnabled ==
    \A u \in units : u.pc \in RecordPcs => ENABLED UnitStep(u)

\* the step at the guard changes nothing but the goroutine's position: into the
\* render pass when the guard is clear, past it when the guard is set
C12GuardStep ==
    \A u \in Movers :
        u.pc = "l301" =>
            /\ units' = Replace(u, [u EXCEPT !.pc = IF drawLock THEN "l305" ELSE "l220"])
            /\ UNCHANGED <<checkResults, checkResultStats, delivered, drawLock>>

\* C12: recording never depends on the render guard: every received result is
\* recorded step by step whatever the guard's value, so a goroutine that reaches
\* the guard has its result in the slot, the count and all three windows; the
\* guard only decides whether the goroutine then enters a render pass or skips it.
C12_RecordingIgnoresGuard ==
    /\ [](C12Recorded /\ C12RecordEnabled)
    /\ [][C12GuardStep]_vars

\* a goroutine has recorded its result and stands at the guard, which is set by
\* the render pass another check's goroutine is in
C12_Witness ==
    \E u, v \in units :
        /\ u.id # v.id
        /\ v \in Rendering
        /\ v.pc # "l220"
        /\ drawLock
        /\ u.pc = "l301"
        /\ Recorded(u)

---------------------------------------------------------------------------
(* C13 *)

\* after a displayResults call has returned an error, no goroutine executes the
\* first statement of displayResults
C13NoRenderStarts ==
    renderFailed = "yes" => \A u \in Movers : u.pc # "l220"

\* C13: when a render pass fails, drawLock is left set, and from then on drawLock
\* stays set and no further render pass is started, under every interleaving.
C13_FailureLatches ==
    /\ [](renderFailed = "yes" => drawLock)
    /\ [][C13NoRenderStarts]_vars

---------------------------------------------------------------------------
(* C14 *)

\* C14: an ICMP probe whose ping exits without error: when the output yields no
\* parsable round-trip time, the outcome is a failure whose duration is the
\* wall-clock time of the ping; when it does, the outcome is a success whose
\* duration is the parsed round-trip time.
C14_IcmpOutcome ==
    (io.fn = "icmp" /\ ~io.err) =>
        IF io.parseErr
        THEN ~io.status /\ io.duration = io.elapsed
        ELSE io.status /\ io.duration = io.rtt

---------------------------------------------------------------------------
(* C15 *)

\* the checks probed by runHttpCheck
HttpIds == {i \in CheckIds : checks[i] = "http"}

\* C15: every execution of the HTTP probe delivers exactly one outcome: success
\* is true exactly when the request had no transport error and the response
\* status is 200, and the duration is the wall-clock time of the request, on
\* success as on failure.  That outcome is the one the probe sends, and each
\* started execution is still in flight or has delivered once.
C15_HttpOutcome ==
    /\ io.fn = "http" =>
          /\ io.status = (~io.err /\ io.code = StatusOK)
          /\ io.duration = io.elapsed
    /\ \A i \in HttpIds :
          /\ started[i] = Len(delivered[i]) + Cardinality(InFlight(i))
          /\ \A u \in At(i, {"send"}) :
                /\ io.fn = "http"
                /\ u.status = io.status
                /\ u.duration = io.duration

\* a request answered with a status other than 200 after MaxDur time units has
\* delivered its one outcome: a failure of duration MaxDur
C15_Witness ==
    \E i \in HttpIds :
        /\ io.fn = "http"
        /\ ~io.err
        /\ io.code # StatusOK
        /\ io.elapsed = MaxDur
        /\ started[i] = 1
        /\ delivered[i] = <<Outcome(FALSE, MaxDur)>>

---------------------------------------------------------------------------
(* C16 *)

\* all entries of the non-empty window w are w[1]
AllEqual(w) == \A k \in 1..Len(w) : w[k] = w[1]

\* the sum of the entries of w
SumOf(w) == Sum([k \in 1..Len(w) |-> w[k]], 1..Len(w))

\* avg is the average the claim gives for the window w
C16Average(w, avg) ==
    /\ w = <<>> => avg = 0
    /\ Len(w) = 1 => avg = w[1]
    /\ (Len(w) >= 1 /\ AllEqual(w)) => avg = w[1]
    /\ Len(w) >= 1 =>
          /\ avg * Len(w) <= SumOf(w)
          /\ SumOf(w) < (avg + 1) * Len(w)

\* C16: averageDuration returns 0 for an empty window, d for the window [d], d
\* for a window of N >= 1 equal durations d, and in general the sum of the
\* entries divided by the window's length with integer division; so for both
\* averages of every printed row.
C16_Average ==
    io.fn = "row" =>
        /\ C16Average(io.last10, io.avg10)
        /\ C16Average(io.last100, io.avg100)

\* a printed row whose full short window holds different durations whose sum
\* the division rounds down, beside a long window of more than Cap10 entries
C16_Witness ==
    /\ io.fn = "row"
    /\ Len(io.last10) = Cap10
    /\ Len(io.last100) > Cap10
    /\ ~AllEqual(io.last10)
    /\ io.avg10 * Len(io.last10) < SumOf(io.last10)
    /\ io.avg10 >= 1

---------------------------------------------------------------------------
(* C17 *)

\* the positions whose statement writes the store
StorePcs == {"l295", "l297", "l298", "l299"}

\* a step inside displayResults leaves slots, counts and windows as they are
C17RenderStep ==
    \A u \in Movers :
        u.pc \in RenderPcs =>
            UNCHANGED <<checks, mainPc, checkResults, checkResultStats, started,
                        delivered, diagnosed>>

\* the store changes only in a step of a goroutine that records its result
C17OnlyRecorders ==
    (checkResults' # checkResults \/ checkResultStats' # checkResultStats) =>
        \E u \in Movers : u.pc \in StorePcs

\* C17: a render pass is read-only with respect to the store: whether it ends
\* well or with an error, no step of displayResults changes any check's slot,
\* count or windows, the only shared variable it writes is drawLock; the store
\* is written by the recording goroutines alone.
C17_RenderReadOnly ==
    [][C17RenderStep /\ C17OnlyRecorders]_vars

\* a render pass has failed, no render pass is in progress, and the store holds
\* every received result
C17_Witness ==
    /\ renderFailed = "yes"
    /\ Rendering = {}
    /\ \E i \in CheckIds :
          /\ Len(delivered[i]) >= 2
          /\ Recording(i) = {}
          /\ checkResults[i].execCount = Len(delivered[i])
          /\ checkResultStats[i].last50Statuses = StatusesOf(delivered[i])
          /\ checkResultStats[i].last10Durations = DurationsOf(delivered[i])

---------------------------------------------------------------------------
(* C18 *)

\* the goroutines of check i blocked in `c <- checkResult`
Senders(i) == At(i, {"send"})

\* once main is in its receive loop, it can take the result of every blocked
\* sender, whatever the other goroutines are doing
C18ReceiveEnabled ==
    \A u \in units :
        (u.pc = "send" /\ mainPc = Len(checks) + 1) => ENABLED Receive(u)

\* with a recognized check the program can always take a step; the model alone
\* stops, when its budget of probe executions is used up and every goroutine
\* has reached its wait
C18NoDeadlock ==
    (\E i \in CheckIds : Recognized(checks[i])) =>
        \/ ENABLED Next
        \/ TotalStarted = budget /\ \A u \in units : u.pc = "l305"

\* C18: the program never deadlocks while a check of a recognized type is
\* configured: main only launches, receives and spawns, so it never waits for a
\* render pass, a sleep or a probe, and a probe goroutine blocked in its send on
\* the unbuffered channel is always eventually received, whatever render
\* passes, sleeps or other sends are in progress.
C18_SendersReceived ==
    /\ [](C18ReceiveEnabled /\ C18NoDeadlock)
    /\ \A i \in AllIds : (Senders(i) # {}) ~> (Senders(i) = {})

\* main has just received the second result of a check while the goroutine of
\* another check is in the middle of a render pass
C18_Witness ==
    \E u, v \in units :
        /\ u.id # v.id
        /\ u.pc = "l294"
        /\ u.n = 2
        /\ v.pc \in {"l226", "l241", "l249"}
        /\ drawLock

---------------------------------------------------------------------------
(* C19 *)

\* the step of goroutine u in which Printf returns an error
RenderFails(u) == u.pc = "l249" /\ units' # Replace(u, NextRow(u))

\* the goroutine whose render pass fails goes on to its wait, with its result
C19ErrorDropped ==
    \A u \in Movers :
        RenderFails(u) =>
            \E v \in units' :
                /\ v.id = u.id /\ v.n = u.n /\ v.status = u.status
                /\ v.pc = "l305"
                /\ units' = Replace(u, v)

\* after a failed render pass as before it, a goroutine at its wait can run the
\* next probe while the budget lasts, and a recording goroutine can go on
C19Enabled ==
    renderFailed = "yes" =>
        \A u \in units :
            /\ (u.pc = "l305" /\ TotalStarted < budget) =>
                  ENABLED (RescheduleHttp(u) \/ RescheduleIcmp(u))
            /\ u.pc \in RecordPcs => ENABLED UnitStep(u)

\* C19: a render failure does not stop probing or recording: the goroutine
\* whose render pass failed drops the error and goes to its wait, every
\* goroutine at its wait runs the next probe of its check (while the model's
\* budget lasts), and the run goes on until every probe execution started,
\* before or after the failure, has its result recorded, for every check.
C19_FailureDoesNotStop ==
    /\ [][C19ErrorDropped]_vars
    /\ []C19Enabled
    /\ \A i \in AllIds :
          (renderFailed = "yes" /\ At(i, {"l305"}) # {})
              ~> (At(i, {"probe"}) # {} \/ TotalStarted = budget)
    /\ (renderFailed = "yes") ~> AllRecorded

\* after a render pass has failed, the result of a later probe execution of one
\* check has just been received while the other check probes again
C19_Witness ==
    \E u, v \in units :
        /\ renderFailed = "yes"
        /\ u.id # v.id
        /\ u.pc = "l294" /\ u.n >= 2
        /\ v.pc = "probe" /\ v.n >= 2

---------------------------------------------------------------------------
(* C20 *)

\* the three views of check i agree
C20Agree(i) ==
    /\ checkResultStats[i].last10Durations =
          Take(checkResultStats[i].last100Durations, Cap10)
    /\ checkResults[i].execCount >= 1 =>
          /\ Take(checkResultStats[i].last10Durations, 1) = <<checkResults[i].duration>>
          /\ Take(checkResultStats[i].last100Durations, 1) = <<checkResults[i].duration>>
          /\ Take(checkResultStats[i].last50Statuses, 1) = <<checkResults[i].status>>

\* C20: whenever no goroutine of a check is in the middle of recording, the
\* check's three views agree: the 10-window is the first min(10, len) entries
\* of the 100-window, and from the first recorded result on the slot's duration
\* is entry 0 of both duration windows and the slot's status is entry 0 of the
\* status window.
C20_ViewsAgree ==
    \A i \in CheckIds : Recording(i) = {} => C20Agree(i)

\* more results than the short window holds are recorded, none is being
\* recorded, and the windows hold different durations
C20_Witness ==
    \E i \in CheckIds :
        /\ Recording(i) = {}
        /\ checkResults[i].execCount > Cap10
        /\ Len(checkResultStats[i].last100Durations) > Cap10
        /\ checkResultStats[i].last100Durations[Cap10 + 1] # checkResults[i].duration

====
